---------------------------- MODULE Spec2Model ----------------------------
(***************************************************************************)
(* A model of ColonyScanalyser's colony core:                              *)
(*   - Colony (src/scanlag/colony.py): the per-colony timepoint dict and   *)
(*     its operations and queries;                                         *)
(*   - timepoints_from_image (src/scanlag/colony.py): the colony builder;  *)
(*   - the filter statements of main                                       *)
(*     (src/colonyscanalyser/colonyscanalyser.py);                         *)
(*   - PlateCollection.coordinate_to_index / index_to_coordinate           *)
(*     (src/src/colonyscanalyser/plate.py): the plate lattice indexer.     *)
(*                                                                         *)
(* A Python call is modelled by its outcome: a record with the field err   *)
(* (NoError, or the exception the call raises) and the value returned or   *)
(* the state left behind.  A Python dict is an insertion-ordered sequence  *)
(* of [key, value] entries with unique keys.                               *)
(*                                                                         *)
(*   - Plate.colonies_rename_sequential                                    *)
(*     (src/src/colonyscanalyser/plate.py): renumbering a plate's colonies.*)
(*                                                                         *)
(* The components are independent; each has its own specification          *)
(* (SpecLattice, SpecColony, SpecSeries, SpecBuilder, SpecFilter,          *)
(* SpecPlate) in which the other components stay idle.  Spec is their sum. *)
(***************************************************************************)
EXTENDS Integers, Sequences, FiniteSets, TLC

VARIABLES
    component,        \* which component this behaviour exercises
    \* ---- plate lattice indexer (pure functions: inputs and outcome)
    coordinate,       \* the coordinate argument, a (row, column) tuple
    shape,            \* the shape argument, a (rows, columns) tuple
    index,            \* the index argument
    lattice_ret,      \* [op, err, value]: outcome of the last lattice call
    \* ---- one Colony object
    timepoints,       \* Colony.__timepoints
    colony_call,      \* [op, time_point, data]: the last call made on the Colony
    colony_ret,       \* [err, value]: its outcome
    timepoints_before,\* Colony.__timepoints as it was before the last call
    \* ---- colony builder
    heap,             \* the Colony objects, by reference (position)
    plate_colonies,   \* main's plate_colonies[plate_id]: dict label -> reference
    colonies_dict,    \* the dict object passed to the last timepoints_from_image call
    heap_before,      \* the Colony objects as they were before that call
    ingest_call,      \* [image, time_point]: arguments of the last call
    ingest_ret,       \* [err, value]: outcome of the last call
    frames,           \* the calls made, in order: [image, time_point, err]
    calls,            \* number of calls made
    \* ---- filter statements of main
    time_points_len,  \* len(time_points): the number of frames
    candidates,       \* plate_colonies[plate_id] before line 366
    filtered,         \* plate_colonies[plate_id] as the filter statements leave it
    filter_pc,        \* which filter statement runs next
    \* ---- one Plate object
    items,            \* Plate.items: the list of the plate's Colony objects
    items_before,     \* Plate.items as it was before the last call
    plate_call,       \* [op, start]: the last call made on the Plate
    plate_ret         \* [err, value]: its outcome

lattice_vars == <<coordinate, shape, index, lattice_ret>>
colony_vars  == <<timepoints, colony_call, colony_ret, timepoints_before>>
builder_vars == <<heap, plate_colonies, colonies_dict, heap_before, ingest_call,
                  ingest_ret, frames, calls>>
filter_vars  == <<time_points_len, candidates, filtered, filter_pc>>
plate_vars   == <<items, items_before, plate_call, plate_ret>>
vars == <<component, lattice_vars, colony_vars, builder_vars, filter_vars,
          plate_vars>>

----------------------------------------------------------------------------
(* Bounds of the model *)

\* lattice components range over -NegRange..MaxComponent
NegRange == 1
MaxComponent == 3
\* index arguments range over -NegRange..MaxIndex
MaxIndex == 10
\* timestamps are 1..MaxTime
MaxTime == 2
\* region labels are 1..MaxLabel
MaxLabel == 2
\* number of timepoints_from_image calls in a behaviour
MaxCalls == 2
\* number of candidate colonies on a plate (besides the worked scenario)
MaxCandidates == 2

----------------------------------------------------------------------------
(* Outcomes of Python calls *)

NoError == "none"
\* colony.py:31  raise ValueError("No time points are stored for this colony")
EmptyColonyError == "ValueError: No time points are stored for this colony"
\* colony.py:42  raise ValueError("The requested time point does not exist")
TimepointNotFoundError == "ValueError: The requested time point does not exist"
\* colony.py:48  raise ValueError("This time point already exists")
DuplicateTimepointError == "ValueError: This time point already exists"
\* plate.py:330, plate.py:348  raise ValueError(... not valid ...)
InvalidShapeError == "ValueError: not valid, all values must be non-negative integers"
\* plate.py:356  raise IndexError("Index number is greater than the supplied shape size")
IndexOutOfBoundsError == "IndexError: Index number is greater than the supplied shape size"
\* raised by the interpreter: a call with a missing or an unknown argument
PyTypeError == "TypeError"
\* raised by the interpreter: attribute lookup on an object that lacks it
PyAttributeError == "AttributeError"

None == "None"

----------------------------------------------------------------------------
(* Python dict: an insertion-ordered sequence of [key, value] entries *)

EmptyDict == <<>>

\* k in d
dict_contains(d, k) == \E i \in 1..Len(d) : d[i].key = k

\* d[k], for k in d
dict_getitem(d, k) == d[CHOOSE i \in 1..Len(d) : d[i].key = k].value

\* d[k] = v: replaces the value in place, or appends a new entry
dict_setitem(d, k, v) ==
    IF dict_contains(d, k)
    THEN [i \in 1..Len(d) |-> IF d[i].key = k THEN [key |-> k, value |-> v] ELSE d[i]]
    ELSE Append(d, [key |-> k, value |-> v])

\* the keys of d, as a set
dict_keys(d) == {d[i].key : i \in 1..Len(d)}

----------------------------------------------------------------------------
(* Plate lattice indexer: src/src/colonyscanalyser/plate.py *)

Components == (0 - NegRange)..MaxComponent
Pairs == Components \X Components
Indices == (0 - NegRange)..MaxIndex

\* numpy.prod of a tuple
RECURSIVE prod(_)
prod(t) == IF t = <<>> THEN 1 ELSE Head(t) * prod(Tail(t))

\* PlateCollection.__is_valid_shape: all(shape) and no value below 1
\* (every value of the model is an int)
is_valid_shape(s) ==
    /\ \A i \in 1..Len(s) : s[i] # 0
    /\ ~ \E i \in 1..Len(s) : s[i] < 1

\* PlateCollection.coordinate_to_index(coordinate): takes the coordinate alone
coordinate_to_index(c) ==
    IF ~ is_valid_shape(c)
    THEN [err |-> InvalidShapeError, value |-> None]
    ELSE [err |-> NoError, value |-> prod(c)]

\* index_to_coordinate with the index taken as 0-based
index_to_coordinate_zero_based(i, s) ==
    IF i < 1 \/ ~ is_valid_shape(s)
    THEN [err |-> InvalidShapeError, value |-> None]
    ELSE LET shape_row == s[1]
             shape_col == s[2]
             row == (i \div shape_col) + 1
             col == (i % shape_col) + 1
         IN  IF row > shape_row \/ col > shape_col
             THEN [err |-> IndexOutOfBoundsError, value |-> None]
             ELSE [err |-> NoError, value |-> <<row, col>>]

\* PlateCollection.index_to_coordinate(index, shape)
index_to_coordinate(i, s) ==
    IF i < 1 \/ ~ is_valid_shape(s)
    THEN [err |-> InvalidShapeError, value |-> None]
    ELSE LET shape_row == s[1]
             shape_col == s[2]
             row == ((i - 1) \div shape_col) + 1
             col == ((i - 1) % shape_col) + 1
         IN  IF row > shape_row \/ col > shape_col
             THEN [err |-> IndexOutOfBoundsError, value |-> None]
             ELSE [err |-> NoError, value |-> <<row, col>>]

NoLatticeCall == [op |-> "none", err |-> NoError, value |-> None]

InitLatticeIdle ==
    /\ coordinate = <<1, 1>>
    /\ shape = <<1, 1>>
    /\ index = 1
    /\ lattice_ret = NoLatticeCall

InitLattice ==
    /\ coordinate \in Pairs
    /\ shape \in Pairs
    /\ index \in Indices
    /\ lattice_ret = NoLatticeCall

\* a call coordinate_to_index(coordinate)
CoordinateToIndex ==
    /\ component = "lattice"
    /\ lattice_ret.op = "none"
    /\ lattice_ret' = [op |-> "coordinate_to_index"] @@ coordinate_to_index(coordinate)
    /\ UNCHANGED <<coordinate, shape, index>>

\* a call index_to_coordinate(index, shape)
IndexToCoordinate ==
    /\ component = "lattice"
    /\ lattice_ret.op = "none"
    /\ lattice_ret' = [op |-> "index_to_coordinate"] @@ index_to_coordinate(index, shape)
    /\ UNCHANGED <<coordinate, shape, index>>

\* index_to_coordinate(coordinate_to_index(coordinate), shape)
RoundTrip ==
    /\ component = "lattice"
    /\ lattice_ret.op = "none"
    /\ LET i == coordinate_to_index(coordinate)
       IN  lattice_ret' = [op |-> "round_trip"] @@
               (IF i.err # NoError THEN i ELSE index_to_coordinate(i.value, shape))
    /\ UNCHANGED <<coordinate, shape, index>>

NextLattice ==
    \/ CoordinateToIndex /\ UNCHANGED <<component, colony_vars, builder_vars, filter_vars, plate_vars>>
    \/ IndexToCoordinate /\ UNCHANGED <<component, colony_vars, builder_vars, filter_vars, plate_vars>>
    \/ RoundTrip /\ UNCHANGED <<component, colony_vars, builder_vars, filter_vars, plate_vars>>

----------------------------------------------------------------------------
(* Colony: src/scanlag/colony.py *)

Times == 1..MaxTime

\* what skimage's regionprops measures of one region
Measurements ==
    { [area |-> 4, centroid |-> <<1, 1>>, equivalent_diameter |-> 2, perimeter |-> 8],
      [area |-> 9, centroid |-> <<2, 3>>, equivalent_diameter |-> 3, perimeter |-> 12] }

\* Colony.Timepoint(date_time, area, center, diameter, perimeter)
Timepoint(t, m) ==
    [date_time |-> t, area |-> m.area, center |-> m.centroid,
     diameter |-> m.equivalent_diameter, perimeter |-> m.perimeter]

\* the property Colony.timepoints without the test for an empty dict
timepoints_getter_unchecked(tps) == [err |-> NoError, value |-> tps]

\* the property Colony.timepoints: the dict, or ValueError when it is empty
timepoints_getter(tps) ==
    IF Len(tps) > 0
    THEN [err |-> NoError, value |-> tps]
    ELSE [err |-> EmptyColonyError, value |-> None]

\* the property Colony.timepoint: its getter is declared with a second
\* parameter, time_point, and a property getter is called with self alone, so
\* every read of self.timepoint raises TypeError before the getter's body runs
timepoint_getter(tps) == [err |-> PyTypeError, value |-> None]

\* append_timepoint without the membership test: an existing record is replaced
append_timepoint_overwrite(tps, time_point, timepointdata) ==
    [err |-> NoError, timepoints |-> dict_setitem(tps, time_point, timepointdata)]

\* append_timepoint that skips an existing timestamp without raising
append_timepoint_skip(tps, time_point, timepointdata) ==
    IF ~ dict_contains(tps, time_point)
    THEN [err |-> NoError, timepoints |-> dict_setitem(tps, time_point, timepointdata)]
    ELSE [err |-> NoError, timepoints |-> tps]

\* Colony.append_timepoint(time_point, timepointdata)
append_timepoint(tps, time_point, timepointdata) ==
    IF ~ dict_contains(tps, time_point)
    THEN [err |-> NoError, timepoints |-> dict_setitem(tps, time_point, timepointdata)]
    ELSE [err |-> DuplicateTimepointError, timepoints |-> tps]

\* Colony.update_timepoint: self.timepoint[time_point] = timepointdata; the
\* read of self.timepoint raises, so the item assignment is never reached
update_timepoint(tps, time_point, timepointdata) ==
    [err |-> timepoint_getter(tps).err, timepoints |-> tps]

\* Colony.remove_timepoint: del self.timepoint[time_point]; as update_timepoint
remove_timepoint(tps, time_point) ==
    [err |-> timepoint_getter(tps).err, timepoints |-> tps]

\* min() of an empty iterable
PyMinEmptyError == "ValueError: min() arg is an empty sequence"

\* Colony.time_of_appearance: min(self.timepoints, key = attrgetter('date_time')).
\* min iterates the dict, that is its keys, and the key function reads the
\* attribute date_time of a key: a timestamp has none
time_of_appearance(tps) ==
    LET tp == timepoints_getter(tps)
    IN  IF tp.err # NoError THEN [err |-> tp.err, value |-> None]
        ELSE IF Len(tp.value) = 0 THEN [err |-> PyMinEmptyError, value |-> None]
        ELSE [err |-> PyAttributeError, value |-> None]

\* Colony.center: sum(self.timepoints, key = ...) / len(self.timepoints).
\* self.timepoints is read first; sum() then rejects the keyword key
center(tps) ==
    LET tp == timepoints_getter(tps)
    IN  IF tp.err # NoError THEN [err |-> tp.err, value |-> None]
        ELSE [err |-> PyTypeError, value |-> None]

\* Colony.get_areas: list(self.timepoints, key = attrgetter('area')).
\* self.timepoints is read first; list() then rejects the keyword key
get_areas(tps) ==
    LET tp == timepoints_getter(tps)
    IN  IF tp.err # NoError THEN [err |-> tp.err, value |-> None]
        ELSE [err |-> PyTypeError, value |-> None]

\* Colony.doubling_time: x_pts = list(self.timepoints, key = ...) comes first
doubling_time(tps) ==
    LET tp == timepoints_getter(tps)
    IN  IF tp.err # NoError THEN [err |-> tp.err, value |-> None]
        ELSE [err |-> PyTypeError, value |-> None]

\* Colony.__local_doubling_time(index, x_pts, y_pts, window): with
\* x1, y1 = x_pts[index], y_pts[index] and x2, y2 the entries window further
\* on, (x2 - x1) * log(2) / log(y2 / y1). Python lists are 0-based, sequences
\* 1-based. The value is kept as the three numbers that determine it; for
\* x2 > x1 it is positive when y2 > y1 and negative when y2 < y1.
\* y2 / y1 with y1 = 0 and the division by log(1) = 0.0 raise
\* ZeroDivisionError; log of a ratio that is not positive raises ValueError
PyZeroDivisionError == "ZeroDivisionError"
PyMathDomainError == "ValueError: math domain error"

local_doubling_time(idx, x_pts, y_pts, w) ==
    LET x1 == x_pts[idx + 1]
        y1 == y_pts[idx + 1]
        x2 == x_pts[idx + w + 1]
        y2 == y_pts[idx + w + 1]
    IN  IF y1 = 0 THEN [err |-> PyZeroDivisionError, value |-> None]
        ELSE IF (y2 > 0) # (y1 > 0) \/ y2 = 0
             THEN [err |-> PyMathDomainError, value |-> None]
        ELSE IF y2 = y1 THEN [err |-> PyZeroDivisionError, value |-> None]
        ELSE [err |-> NoError, value |-> [dx |-> x2 - x1, y2 |-> y2, y1 |-> y1]]

\* Colony.__circularity(area, perimeter): (4 * pi * area) / (perimeter * perimeter).
\* The value is kept as the two numbers that determine it; a perimeter of 0
\* divides by zero
circularity(area, perimeter) ==
    IF perimeter * perimeter = 0 THEN [err |-> PyZeroDivisionError, value |-> None]
    ELSE [err |-> NoError, value |-> [area |-> area, perimeter |-> perimeter]]

\* Colony.circularity_at_timepoint: the first argument of __circularity,
\* self.timepoint[time_point].area, is evaluated first and reads self.timepoint
circularity_at_timepoint(tps, time_point) ==
    [err |-> timepoint_getter(tps).err, value |-> None]

\* Colony.timepoint_first, Colony.timepoint_last: the records with the least
\* and the greatest timestamp (read by main; their code is not part of the
\* sources at hand and follows the description of the Colony)
timepoint_first(tps) ==
    dict_getitem(tps, CHOOSE t \in dict_keys(tps) : \A u \in dict_keys(tps) : t <= u)

timepoint_last(tps) ==
    dict_getitem(tps, CHOOSE t \in dict_keys(tps) : \A u \in dict_keys(tps) : u <= t)

\* the ratio of the records in the order of their insertion
growth_rate_insertion_order(tps) ==
    LET tp == timepoints_getter(tps)
    IN  IF tp.err # NoError THEN [err |-> tp.err, value |-> None]
        ELSE IF tps[1].value.area = 0
             THEN [err |-> PyZeroDivisionError, value |-> None]
        ELSE [err |-> NoError,
              value |-> [num |-> tps[Len(tps)].value.area, den |-> tps[1].value.area]]

\* Colony.growth_rate: the ratio of the final to the first measured area, kept
\* as a fraction (read by main; its code is not part of the sources at hand
\* and follows the description of the Colony)
growth_rate(tps) ==
    LET tp == timepoints_getter(tps)
    IN  IF tp.err # NoError THEN [err |-> tp.err, value |-> None]
        ELSE IF timepoint_first(tps).area = 0
             THEN [err |-> PyZeroDivisionError, value |-> None]
        ELSE [err |-> NoError,
              value |-> [num |-> timepoint_last(tps).area,
                         den |-> timepoint_first(tps).area]]

\* a region of a single pixel: regionprops gives it the perimeter 0
PointMeasurement ==
    [area |-> 1, centroid |-> <<1, 1>>, equivalent_diameter |-> 1, perimeter |-> 0]

ColonyMeasurements == Measurements \cup {PointMeasurement}

NoColonyCall == [op |-> "none", time_point |-> None, data |-> None]
NoRet == [err |-> NoError, value |-> None]

\* Colony(id): timepoints = dict()
InitColony ==
    /\ timepoints = EmptyDict
    /\ timepoints_before = EmptyDict
    /\ colony_call = NoColonyCall
    /\ colony_ret = NoRet

AppendTimepoint(t, m) ==
    /\ component = "colony"
    /\ LET r == append_timepoint(timepoints, t, Timepoint(t, m))
       IN  /\ timepoints' = r.timepoints
           /\ colony_ret' = [err |-> r.err, value |-> None]
    /\ colony_call' = [op |-> "append_timepoint", time_point |-> t, data |-> Timepoint(t, m)]
    /\ timepoints_before' = timepoints

UpdateTimepoint(t, m) ==
    /\ component = "colony"
    /\ LET r == update_timepoint(timepoints, t, Timepoint(t, m))
       IN  /\ timepoints' = r.timepoints
           /\ colony_ret' = [err |-> r.err, value |-> None]
    /\ colony_call' = [op |-> "update_timepoint", time_point |-> t, data |-> Timepoint(t, m)]
    /\ timepoints_before' = timepoints

RemoveTimepoint(t) ==
    /\ component = "colony"
    /\ LET r == remove_timepoint(timepoints, t)
       IN  /\ timepoints' = r.timepoints
           /\ colony_ret' = [err |-> r.err, value |-> None]
    /\ colony_call' = [op |-> "remove_timepoint", time_point |-> t, data |-> None]
    /\ timepoints_before' = timepoints

\* a query: the Colony is left as it is
Query(op, r) ==
    /\ component = "colony"
    /\ colony_ret' = r
    /\ colony_call' = [op |-> op, time_point |-> None, data |-> None]
    /\ timepoints_before' = timepoints
    /\ UNCHANGED timepoints

TimeOfAppearance == Query("time_of_appearance", time_of_appearance(timepoints))
Center == Query("center", center(timepoints))
GetAreas == Query("get_areas", get_areas(timepoints))
DoublingTime == Query("doubling_time", doubling_time(timepoints))

GrowthRate == Query("growth_rate", growth_rate(timepoints))

CircularityAtTimepoint(t) ==
    /\ component = "colony"
    /\ colony_ret' = circularity_at_timepoint(timepoints, t)
    /\ colony_call' = [op |-> "circularity_at_timepoint", time_point |-> t, data |-> None]
    /\ timepoints_before' = timepoints
    /\ UNCHANGED timepoints

NextColony ==
    \/ \E t \in Times, m \in ColonyMeasurements :
         AppendTimepoint(t, m) /\ UNCHANGED <<component, lattice_vars, builder_vars, filter_vars, plate_vars>>
    \/ \E t \in Times, m \in ColonyMeasurements :
         UpdateTimepoint(t, m) /\ UNCHANGED <<component, lattice_vars, builder_vars, filter_vars, plate_vars>>
    \/ \E t \in Times :
         RemoveTimepoint(t) /\ UNCHANGED <<component, lattice_vars, builder_vars, filter_vars, plate_vars>>
    \/ TimeOfAppearance /\ UNCHANGED <<component, lattice_vars, builder_vars, filter_vars, plate_vars>>
    \/ Center /\ UNCHANGED <<component, lattice_vars, builder_vars, filter_vars, plate_vars>>
    \/ GetAreas /\ UNCHANGED <<component, lattice_vars, builder_vars, filter_vars, plate_vars>>
    \/ DoublingTime /\ UNCHANGED <<component, lattice_vars, builder_vars, filter_vars, plate_vars>>
    \/ GrowthRate /\ UNCHANGED <<component, lattice_vars, builder_vars, filter_vars, plate_vars>>
    \/ \E t \in Times :
         CircularityAtTimepoint(t) /\ UNCHANGED <<component, lattice_vars, builder_vars, filter_vars, plate_vars>>

\* window = 10 in Colony.doubling_time
window == 10

\* Colonies that hold a series of timepoints: the Colony after n calls of
\* append_timepoint with the timestamps 1..n, appended in ascending or in
\* descending order, whose areas grow, stay equal or shrink over time
SeriesExtra == 2
SeriesLengths == 1..(window + SeriesExtra)
SeriesPatterns == {"growing", "flat", "shrinking"}
SeriesOrders == {"ascending", "descending"}

SeriesArea(pattern, t) ==
    CASE pattern = "growing" -> 4 * t
      [] pattern = "flat" -> 4
      [] pattern = "shrinking" -> 4 * (window + SeriesExtra + 1 - t)

SeriesRecord(pattern, t) ==
    Timepoint(t, [area |-> SeriesArea(pattern, t), centroid |-> <<1, 1>>,
                  equivalent_diameter |-> 2, perimeter |-> 8])

RECURSIVE append_all(_, _, _)
\* append_timepoint called for each timestamp of the sequence ts in turn
append_all(tps, pattern, ts) ==
    IF ts = << >> THEN tps
    ELSE append_all(append_timepoint(tps, Head(ts), SeriesRecord(pattern, Head(ts))).timepoints,
                    pattern, Tail(ts))

SeriesColony(n, pattern, order) ==
    append_all(EmptyDict, pattern,
               [i \in 1..n |-> IF order = "ascending" THEN i ELSE n + 1 - i])

InitSeries ==
    /\ \E n \in SeriesLengths, pattern \in SeriesPatterns, order \in SeriesOrders :
         timepoints = SeriesColony(n, pattern, order)
    /\ timepoints_before = timepoints
    /\ colony_call = NoColonyCall
    /\ colony_ret = NoRet

----------------------------------------------------------------------------
(* Colony builder: timepoints_from_image, src/scanlag/colony.py *)

Labels == 1..MaxLabel

\* a segmented and labelled image, as regionprops sees it: the measurements of
\* the region of each label that occurs in it
Images == UNION { [S -> Measurements] : S \in SUBSET Labels }

\* Colony(id): a new object with an empty dict of its own
Colony(id) == [id |-> id, timepoints |-> EmptyDict]

\* colonies[rp.label] = Colony(rp.label) without the membership test: a label
\* seen before gets a new, empty Colony
colony_for_label_always_new(colonies, hp, label) ==
    [colonies |-> dict_setitem(colonies, label, Len(hp) + 1),
     heap |-> Append(hp, Colony(label))]

\* if rp.label not in colonies: colonies[rp.label] = Colony(rp.label)
colony_for_label(colonies, hp, label) ==
    IF ~ dict_contains(colonies, label)
    THEN [colonies |-> dict_setitem(colonies, label, Len(hp) + 1),
          heap |-> Append(hp, Colony(label))]
    ELSE [colonies |-> colonies, heap |-> hp]

\* the loop over regionprops(image), which lists the regions by ascending
\* label; todo holds the labels not yet visited.  An exception ends the loop
RECURSIVE regions_loop(_, _, _, _, _)
regions_loop(colonies, hp, image, time_point, todo) ==
    IF todo = {}
    THEN [err |-> NoError, colonies |-> colonies, heap |-> hp]
    ELSE LET label == CHOOSE l \in todo : \A o \in todo : l <= o
             timepoint_data == Timepoint(time_point, image[label])
             c == colony_for_label(colonies, hp, label)
             ref == dict_getitem(c.colonies, label)
             a == append_timepoint(c.heap[ref].timepoints,
                                   timepoint_data.date_time, timepoint_data)
         IN  IF a.err # NoError
             THEN [err |-> a.err, colonies |-> c.colonies, heap |-> c.heap]
             ELSE regions_loop(c.colonies,
                               [c.heap EXCEPT ![ref].timepoints = a.timepoints],
                               image, time_point, todo \ {label})

\* timepoints_from_image(colonies_dict, image, time_point): works on
\* colonies_dict.copy(), a new dict holding the same Colony objects
timepoints_from_image(dict_arg, hp, image, time_point) ==
    regions_loop(dict_arg, hp, image, time_point, DOMAIN image)

InitBuilder ==
    /\ heap = <<>>
    /\ plate_colonies = EmptyDict
    /\ colonies_dict = EmptyDict
    /\ heap_before = <<>>
    /\ ingest_call = [image |-> <<>>, time_point |-> None]
    /\ ingest_ret = NoRet
    /\ frames = <<>>
    /\ calls = 0

\* plate_colonies[plate_id] = timepoints_from_image(plate_colonies[plate_id],
\* plate_image, time_point).  When the call raises, the assignment does not
\* happen, and the dict copy and the Colony objects made in the call are lost.
\* (main passes time_points_elapsed[j] as a further argument, which the
\* timepoints_from_image of src/scanlag/colony.py does not take; the call is
\* modelled with the three parameters the function declares.)
TimepointsFromImage(image, time_point) ==
    /\ component = "builder"
    /\ calls < MaxCalls
    /\ LET r == timepoints_from_image(plate_colonies, heap, image, time_point)
       IN  /\ IF r.err = NoError
              THEN /\ plate_colonies' = r.colonies
                   /\ heap' = r.heap
                   /\ ingest_ret' = [err |-> NoError, value |-> r.colonies]
              ELSE /\ plate_colonies' = plate_colonies
                   /\ heap' = SubSeq(r.heap, 1, Len(heap))
                   /\ ingest_ret' = [err |-> r.err, value |-> None]
           /\ frames' = Append(frames, [image |-> image, time_point |-> time_point,
                                        err |-> r.err])
    /\ colonies_dict' = plate_colonies
    /\ heap_before' = heap
    /\ ingest_call' = [image |-> image, time_point |-> time_point]
    /\ calls' = calls + 1

NextBuilder ==
    \E image \in Images, time_point \in Times :
        TimepointsFromImage(image, time_point)
        /\ UNCHANGED <<component, lattice_vars, colony_vars, filter_vars, plate_vars>>

----------------------------------------------------------------------------
(* The filter statements of main: src/colonyscanalyser/colonyscanalyser.py *)

\* len(elem[1].timepoints) > len(time_points) * 0.2
SufficientDataFraction == 5
\* elem[1].timepoint_first.area < 50
MergedColonyArea == 50

\* What the filter statements read of a Colony: len(timepoints), growth_rate
\* (a float, here an exact fraction num/den with den > 0) and
\* timepoint_first.area
FrameCounts == {10, 100}
ObservationCounts == {2, 5, 20, 21}
GrowthRates == { [num |-> 1, den |-> 2], [num |-> 1, den |-> 1], [num |-> 3, den |-> 1] }
FirstAreas == {20, 49, 50}
Profiles ==
    [timepoints_len : ObservationCounts, growth_rate : GrowthRates,
     timepoint_first_area : FirstAreas]

\* the dict {1: f[1], ..., k: f[k]}
dict_of(f) == [i \in DOMAIN f |-> [key |-> i, value |-> f[i]]]

\* a plate over 100 frames: A seen in 5 frames (growth rate 2.0, first area
\* 10), B in 30 frames (growth rate 0.5), C in 30 frames (growth rate 3.0,
\* first area 20)
ScenarioColonies ==
    dict_of(<< [timepoints_len |-> 5, growth_rate |-> [num |-> 2, den |-> 1],
                timepoint_first_area |-> 10],
               [timepoints_len |-> 30, growth_rate |-> [num |-> 1, den |-> 2],
                timepoint_first_area |-> 20],
               [timepoints_len |-> 30, growth_rate |-> [num |-> 3, den |-> 1],
                timepoint_first_area |-> 20] >>)

\* the first filter with >= for >
has_sufficient_data_or_equal(colony, n_frames) ==
    colony.timepoints_len * SufficientDataFraction >= n_frames

\* len(elem[1].timepoints) > len(time_points) * 0.2.  For integers n and N,
\* n > N * 0.2 in double arithmetic exactly when 5 * n > N: N * 0.2 is never
\* rounded below N / 5
has_sufficient_data(colony, n_frames) ==
    colony.timepoints_len * SufficientDataFraction > n_frames

\* at least as large as the first area, not larger
shows_growth_or_equal(colony) == colony.growth_rate.num >= colony.growth_rate.den

\* elem[1].growth_rate > 1
shows_growth(colony) == colony.growth_rate.num > colony.growth_rate.den

\* elem[1].timepoint_first.area < 50
appears_unmerged(colony) == colony.timepoint_first_area < MergedColonyArea

\* the three filter statements of lines 366, 368 and 370, each as a function
\* of the dict it filters
FilterNames == {"sufficient_data", "growth", "merged"}

filter_statement(name, d, n_frames) ==
    LET keep(elem) ==
            CASE name = "sufficient_data" -> has_sufficient_data(elem.value, n_frames)
              [] name = "growth" -> shows_growth(elem.value)
              [] name = "merged" -> appears_unmerged(elem.value)
    IN  SelectSeq(d, keep)

InitFilterIdle ==
    /\ time_points_len = 1
    /\ candidates = EmptyDict
    /\ filtered = EmptyDict
    /\ filter_pc = "sufficient_data"

\* the colonies of a plate after tracking: each was seen in at least one and
\* at most every frame
InitFilter ==
    /\ \/ /\ time_points_len \in FrameCounts
          /\ \E k \in 0..MaxCandidates : \E f \in [1..k -> Profiles] :
                /\ \A i \in 1..k : f[i].timepoints_len <= time_points_len
                /\ candidates = dict_of(f)
       \/ /\ time_points_len = 100
          /\ candidates = ScenarioColonies
    /\ filtered = candidates
    /\ filter_pc = "sufficient_data"

\* line 366: remove objects that do not have sufficient data points
FilterSufficientData ==
    /\ component = "filter"
    /\ filter_pc = "sufficient_data"
    /\ LET keep(elem) == has_sufficient_data(elem.value, time_points_len)
       IN  filtered' = SelectSeq(filtered, keep)
    /\ filter_pc' = "growth"
    /\ UNCHANGED <<time_points_len, candidates>>

\* line 368: remove objects that do not show growth
FilterGrowth ==
    /\ component = "filter"
    /\ filter_pc = "growth"
    /\ LET keep(elem) == shows_growth(elem.value)
       IN  filtered' = SelectSeq(filtered, keep)
    /\ filter_pc' = "merged"
    /\ UNCHANGED <<time_points_len, candidates>>

\* line 370: remove colonies that appear with a large area
FilterMerged ==
    /\ component = "filter"
    /\ filter_pc = "merged"
    /\ LET keep(elem) == appears_unmerged(elem.value)
       IN  filtered' = SelectSeq(filtered, keep)
    /\ filter_pc' = "done"
    /\ UNCHANGED <<time_points_len, candidates>>

NextFilter ==
    \/ FilterSufficientData /\ UNCHANGED <<component, lattice_vars, colony_vars, builder_vars, plate_vars>>
    \/ FilterGrowth /\ UNCHANGED <<component, lattice_vars, colony_vars, builder_vars, plate_vars>>
    \/ FilterMerged /\ UNCHANGED <<component, lattice_vars, colony_vars, builder_vars, plate_vars>>

----------------------------------------------------------------------------
(* Plate: colonies_rename_sequential, src/src/colonyscanalyser/plate.py *)

\* the function makes `return i` read a local name that was never bound
PyUnboundLocalError == "UnboundLocalError"

\* Plates hold up to MaxItems colonies, whose ids are unique
MaxItems == 3
ItemIds == 1..(MaxItems + 1)
Starts == {0, 1, 5}

\* a Colony of a plate: its id and its timepoints, here one record that tells
\* the colonies apart
PlateColony(id) ==
    [id |-> id,
     timepoints |-> append_timepoint(EmptyDict, 1, SeriesRecord("growing", id)).timepoints]

\* the lists of n colonies with unique ids
PlateItemsOfLen(n) ==
    {[k \in 1..n |-> PlateColony(ids[k])] :
        ids \in {q \in [1..n -> ItemIds] : \A j, k \in 1..n : j # k => q[j] # q[k]}}

PlateItems == UNION {PlateItemsOfLen(n) : n \in 0..MaxItems}

\* Plate.colonies_rename_sequential(start):
\*     for i, colony in enumerate(self.items, start = start): colony.id = i
\*     return i
\* The k-th colony of the list (from 1) gets the id start + k - 1. On an empty
\* list the loop body never runs and i is unbound at the return
colonies_rename_sequential(its, start) ==
    IF Len(its) = 0
    THEN [err |-> PyUnboundLocalError, value |-> None, items |-> its]
    ELSE [err |-> NoError,
          value |-> start + Len(its) - 1,
          items |-> [k \in 1..Len(its) |-> [its[k] EXCEPT !.id = start + k - 1]]]

NoPlateCall == [op |-> "none", start |-> None]

\* no Plate is in use
InitPlateIdle ==
    /\ items = << >>
    /\ items_before = << >>
    /\ plate_call = NoPlateCall
    /\ plate_ret = NoRet

\* Plate(id, diameter, colonies = ...): self.items = colonies
InitPlate ==
    /\ items \in PlateItems
    /\ items_before = items
    /\ plate_call = NoPlateCall
    /\ plate_ret = NoRet

ColoniesRenameSequential(start) ==
    /\ component = "plate"
    /\ plate_call.op = "none"
    /\ LET r == colonies_rename_sequential(items, start)
       IN  /\ items' = r.items
           /\ plate_ret' = [err |-> r.err, value |-> r.value]
    /\ plate_call' = [op |-> "colonies_rename_sequential", start |-> start]
    /\ items_before' = items

NextPlate ==
    \E start \in Starts :
        ColoniesRenameSequential(start)
            /\ UNCHANGED <<component, lattice_vars, colony_vars, builder_vars, filter_vars>>

----------------------------------------------------------------------------
(* Specifications *)

\* each specification starts its own component and leaves the others idle
InitSpecLattice ==
    component = "lattice" /\ InitLattice /\ InitColony /\ InitBuilder /\ InitFilterIdle
        /\ InitPlateIdle

InitSpecColony ==
    component = "colony" /\ InitLatticeIdle /\ InitColony /\ InitBuilder /\ InitFilterIdle
        /\ InitPlateIdle

InitSpecBuilder ==
    component = "builder" /\ InitLatticeIdle /\ InitColony /\ InitBuilder /\ InitFilterIdle
        /\ InitPlateIdle

InitSpecFilter ==
    component = "filter" /\ InitLatticeIdle /\ InitColony /\ InitBuilder /\ InitFilter
        /\ InitPlateIdle

InitSpecSeries ==
    component = "colony" /\ InitLatticeIdle /\ InitSeries /\ InitBuilder /\ InitFilterIdle
        /\ InitPlateIdle

InitSpecPlate ==
    component = "plate" /\ InitLatticeIdle /\ InitColony /\ InitBuilder /\ InitFilterIdle
        /\ InitPlate

SpecLattice == InitSpecLattice /\ [][NextLattice]_vars

SpecColony == InitSpecColony /\ [][NextColony]_vars

SpecBuilder == InitSpecBuilder /\ [][NextBuilder]_vars

SpecFilter == InitSpecFilter /\ [][NextFilter]_vars

\* a Colony that starts with a series of timepoints
SpecSeries == InitSpecSeries /\ [][NextColony]_vars

SpecPlate == InitSpecPlate /\ [][NextPlate]_vars

Init ==
    InitSpecLattice \/ InitSpecColony \/ InitSpecBuilder \/ InitSpecFilter
        \/ InitSpecSeries \/ InitSpecPlate

Next == NextLattice \/ NextColony \/ NextBuilder \/ NextFilter \/ NextPlate

Spec == Init /\ [][Next]_vars

----------------------------------------------------------------------------
(* Properties of the plate lattice indexer, under SpecLattice *)

\* shape is a pair of positive integers and coordinate lies within it
WithinShape(c, s) ==
    /\ s[1] >= 1 /\ s[2] >= 1
    /\ 1 <= c[1] /\ c[1] <= s[1]
    /\ 1 <= c[2] /\ c[2] <= s[2]

\* C3: for every shape of positive integers and every coordinate within it,
\* converting the coordinate to its index and the index back to a coordinate
\* under that shape returns the coordinate.
C3_RoundTrip ==
    (lattice_ret.op = "round_trip" /\ WithinShape(coordinate, shape))
        => (lattice_ret.err = NoError /\ lattice_ret.value = coordinate)

\* C4: for every coordinate (row, column) within a shape (rows, columns) the
\* index of the coordinate is the row-major 1-based index
\* (row - 1) * columns + column.
C4_RowMajorIndex ==
    (lattice_ret.op = "coordinate_to_index" /\ WithinShape(coordinate, shape))
        => /\ lattice_ret.err = NoError
           /\ lattice_ret.value = (coordinate[1] - 1) * shape[2] + coordinate[2]

\* C5: for every index >= 1 and every shape of positive integers,
\* index_to_coordinate returns row ((index-1) // columns) + 1 and column
\* ((index-1) % columns) + 1 when index <= rows * columns, and raises the
\* index-out-of-bounds error exactly when that row exceeds rows, that is when
\* index > rows * columns.
C5_IndexToCoordinate ==
    (lattice_ret.op = "index_to_coordinate" /\ index >= 1
        /\ shape[1] >= 1 /\ shape[2] >= 1)
        => /\ (index <= shape[1] * shape[2])
                => /\ lattice_ret.err = NoError
                   /\ lattice_ret.value = << ((index - 1) \div shape[2]) + 1,
                                             ((index - 1) % shape[2]) + 1 >>
           /\ (lattice_ret.err = IndexOutOfBoundsError)
                <=> (((index - 1) \div shape[2]) + 1 > shape[1])
           /\ (lattice_ret.err = IndexOutOfBoundsError)
                <=> (index > shape[1] * shape[2])

\* index 5 of a 2 x 3 lattice is row 2, column 2
C5_Witness ==
    /\ lattice_ret.op = "index_to_coordinate"
    /\ shape = <<2, 3>> /\ index = 5
    /\ lattice_ret.err = NoError /\ lattice_ret.value = <<2, 2>>

\* C6: coordinate_to_index and index_to_coordinate both fail when a component
\* of the coordinate or of the shape is zero or negative, when the index is
\* below 1, and when the coordinate given to coordinate_to_index exceeds the
\* shape in either component.
C6_InvalidInputsFail ==
    /\ (lattice_ret.op = "coordinate_to_index"
            /\ (\/ coordinate[1] < 1 \/ coordinate[2] < 1
                \/ shape[1] < 1 \/ shape[2] < 1
                \/ coordinate[1] > shape[1] \/ coordinate[2] > shape[2]))
         => lattice_ret.err # NoError
    /\ (lattice_ret.op = "index_to_coordinate"
            /\ (index < 1 \/ shape[1] < 1 \/ shape[2] < 1))
         => lattice_ret.err # NoError

----------------------------------------------------------------------------
(* Properties of Colony, under SpecColony *)

\* the two dicts hold the same records under every key other than k
SameExceptAt(d, e, k) ==
    /\ dict_keys(d) \ {k} = dict_keys(e) \ {k}
    /\ \A o \in dict_keys(d) \ {k} : dict_getitem(d, o) = dict_getitem(e, o)

\* C1: append_timepoint(t, r) with t already stored raises the
\* duplicate-timepoint error and leaves the timepoint dict exactly as it was;
\* with t not yet stored it succeeds and adds exactly the entry t -> r.
C1_AppendTimepoint ==
    colony_call.op = "append_timepoint" =>
        IF colony_call.time_point \in dict_keys(timepoints_before)
        THEN /\ colony_ret.err = DuplicateTimepointError
             /\ timepoints = timepoints_before
        ELSE /\ colony_ret.err = NoError
             /\ dict_keys(timepoints) =
                    dict_keys(timepoints_before) \cup {colony_call.time_point}
             /\ dict_getitem(timepoints, colony_call.time_point) = colony_call.data
             /\ SameExceptAt(timepoints, timepoints_before, colony_call.time_point)
             /\ Len(timepoints) = Len(timepoints_before) + 1

\* an append at a stored timestamp, with a record other than the stored one,
\* was refused
C1_Witness ==
    /\ colony_call.op = "append_timepoint"
    /\ colony_call.time_point \in dict_keys(timepoints_before)
    /\ dict_getitem(timepoints_before, colony_call.time_point) # colony_call.data
    /\ colony_ret.err = DuplicateTimepointError

\* C2: update_timepoint(t, r) and remove_timepoint(t) raise the
\* timepoint-not-found error when t is not stored and leave the dict as it
\* was; when t is stored, update replaces only the record under t and remove
\* deletes only the entry t.
C2_UpdateRemove ==
    /\ colony_call.op = "update_timepoint" =>
        IF colony_call.time_point \notin dict_keys(timepoints_before)
        THEN /\ colony_ret.err = TimepointNotFoundError
             /\ timepoints = timepoints_before
        ELSE /\ colony_ret.err = NoError
             /\ dict_keys(timepoints) = dict_keys(timepoints_before)
             /\ dict_getitem(timepoints, colony_call.time_point) = colony_call.data
             /\ SameExceptAt(timepoints, timepoints_before, colony_call.time_point)
    /\ colony_call.op = "remove_timepoint" =>
        IF colony_call.time_point \notin dict_keys(timepoints_before)
        THEN /\ colony_ret.err = TimepointNotFoundError
             /\ timepoints = timepoints_before
        ELSE /\ colony_ret.err = NoError
             /\ dict_keys(timepoints) =
                    dict_keys(timepoints_before) \ {colony_call.time_point}
             /\ SameExceptAt(timepoints, timepoints_before, colony_call.time_point)

\* C10: on a Colony holding no timepoint, each of time_of_appearance, center,
\* get_areas and doubling_time raises the empty-colony error and returns
\* nothing.
C10_EmptyColonyQueries ==
    (colony_call.op \in {"time_of_appearance", "center", "get_areas", "doubling_time"}
        /\ Len(timepoints_before) = 0)
        => (colony_ret.err = EmptyColonyError /\ colony_ret.value = None)

\* time_of_appearance was asked of a Colony without timepoints
C10_Witness ==
    /\ colony_call.op = "time_of_appearance"
    /\ timepoints = EmptyDict
    /\ colony_ret.err = EmptyColonyError

----------------------------------------------------------------------------
(* Properties of the colony builder, under SpecBuilder *)

\* the calls made so far came in strictly increasing timestamp order
IncreasingFrames ==
    \A i \in 1..(Len(frames) - 1) : frames[i].time_point < frames[i + 1].time_point

\* the calls whose image holds a region labelled l
FramesOf(l) == {i \in 1..Len(frames) : l \in DOMAIN frames[i].image}

\* the Colony object the dict d holds under label l
ColonyOf(d, hp, l) == hp[dict_getitem(d, l)]

\* C8: after calls made in strictly increasing timestamp order from an empty
\* colony set, every call returned; the set holds a Colony under label l
\* exactly when l was seen in some frame; that Colony's id is l; its keys are
\* the timestamps of the frames that showed l, one record per frame, carrying
\* that frame's area, center, diameter and perimeter; and the last call
\* removed no colony and replaced no stored record.
C8_BuilderTracksFrames ==
    IncreasingFrames =>
        /\ \A i \in 1..Len(frames) : frames[i].err = NoError
        /\ dict_keys(plate_colonies) = {l \in Labels : FramesOf(l) # {}}
        /\ Len(plate_colonies) = Cardinality(dict_keys(plate_colonies))
        /\ \A l \in dict_keys(plate_colonies) :
             LET c == ColonyOf(plate_colonies, heap, l)
             IN  /\ c.id = l
                 /\ dict_keys(c.timepoints) = {frames[i].time_point : i \in FramesOf(l)}
                 /\ Len(c.timepoints) = Cardinality(FramesOf(l))
                 /\ \A i \in FramesOf(l) :
                      LET rec == dict_getitem(c.timepoints, frames[i].time_point)
                          m == frames[i].image[l]
                      IN  /\ rec.date_time = frames[i].time_point
                          /\ rec.area = m.area
                          /\ rec.center = m.centroid
                          /\ rec.diameter = m.equivalent_diameter
                          /\ rec.perimeter = m.perimeter
        /\ \A l \in dict_keys(colonies_dict) :
             /\ l \in dict_keys(plate_colonies)
             /\ dict_getitem(plate_colonies, l) = dict_getitem(colonies_dict, l)
             /\ LET old == ColonyOf(colonies_dict, heap_before, l).timepoints
                    new == ColonyOf(plate_colonies, heap, l).timepoints
                IN  \A k \in dict_keys(old) : dict_getitem(new, k) = dict_getitem(old, k)

\* two frames in increasing order: label 1 in both, with different
\* measurements, label 2 in the second only
C8_Witness ==
    /\ Len(frames) = 2
    /\ IncreasingFrames
    /\ DOMAIN frames[1].image = {1}
    /\ DOMAIN frames[2].image = {1, 2}
    /\ frames[1].image[1] # frames[2].image[1]
    /\ Len(ColonyOf(plate_colonies, heap, 1).timepoints) = 2
    /\ Len(ColonyOf(plate_colonies, heap, 2).timepoints) = 1

\* the labels of the last call's image whose Colony already held the call's
\* timestamp
DuplicateLabels ==
    {l \in DOMAIN ingest_call.image :
        /\ l \in dict_keys(colonies_dict)
        /\ ingest_call.time_point
             \in dict_keys(ColonyOf(colonies_dict, heap_before, l).timepoints)}

\* C9: a call whose timestamp is already stored in the Colony of some label
\* of the frame raises the duplicate-timepoint error: it returns no colony
\* set, the caller keeps the set it had, and the stored record is not
\* overwritten.
C9_DuplicateIngestFails ==
    (calls > 0 /\ DuplicateLabels # {}) =>
        /\ ingest_ret.err = DuplicateTimepointError
        /\ ingest_ret.value = None
        /\ plate_colonies = colonies_dict
        /\ \A l \in DuplicateLabels :
             dict_getitem(ColonyOf(plate_colonies, heap, l).timepoints,
                          ingest_call.time_point)
               = dict_getitem(ColonyOf(colonies_dict, heap_before, l).timepoints,
                              ingest_call.time_point)

\* a frame repeated a stored timestamp for a label, with another area than
\* the stored one, and the call raised
C9_Witness ==
    /\ calls > 0
    /\ \E l \in DuplicateLabels :
         dict_getitem(ColonyOf(colonies_dict, heap_before, l).timepoints,
                      ingest_call.time_point).area # ingest_call.image[l].area
    /\ ingest_ret.err = DuplicateTimepointError

----------------------------------------------------------------------------
(* Properties of the filter statements, under SpecFilter *)

\* seen in more than 0.2 of the frames, growth rate above 1, first area below 50
PassesAllThree(colony) ==
    /\ 5 * colony.timepoints_len > time_points_len
    /\ colony.growth_rate.num > colony.growth_rate.den
    /\ colony.timepoint_first_area < 50

Entries(d) == {d[i] : i \in 1..Len(d)}

\* C7: after the three filter statements the surviving colonies are exactly
\* the candidates that were seen in more than 0.2 * N frames, have a growth
\* rate above 1 and a first area below 50; no survivor is altered and nothing
\* but candidates survives.
C7_FilterSurvivors ==
    filter_pc = "done" =>
        /\ Entries(filtered) = {e \in Entries(candidates) : PassesAllThree(e.value)}
        /\ Len(filtered) = Cardinality(Entries(filtered))

\* the worked scenario: of A, B and C over 100 frames only C survives
C7_Witness ==
    /\ filter_pc = "done"
    /\ time_points_len = 100
    /\ candidates = ScenarioColonies
    /\ dict_keys(filtered) = {3}

----------------------------------------------------------------------------
(* Properties of the Colony queries on a Colony that holds timepoints, *)
(* under SpecColony *)

RECURSIVE SortSet(_)
\* the elements of a finite set of integers, ascending
SortSet(S) ==
    IF S = {} THEN << >>
    ELSE LET least == CHOOSE x \in S : \A y \in S : x <= y
         IN  << least >> \o SortSet(S \ {least})

\* the records of a timepoints dict in ascending order of their timestamps
RecordsByTime(d) ==
    LET ts == SortSet(dict_keys(d))
    IN  [i \in 1..Len(ts) |-> dict_getitem(d, ts[i])]

\* C11: on a Colony that holds at least one timepoint, time_of_appearance
\* returns the least stored timestamp, in whatever order the timepoints were
\* appended.
C11_TimeOfAppearance ==
    (colony_call.op = "time_of_appearance" /\ Len(timepoints_before) > 0)
        => /\ colony_ret.err = NoError
           /\ colony_ret.value = SortSet(dict_keys(timepoints_before))[1]

\* C12: on a Colony that holds at least one timepoint, get_areas returns one
\* area per stored timepoint, in ascending order of the timestamps, in
\* whatever order the timepoints were appended.
C12_AreasByTime ==
    (colony_call.op = "get_areas" /\ Len(timepoints_before) > 0)
        => /\ colony_ret.err = NoError
           /\ colony_ret.value =
                [i \in 1..Len(timepoints_before) |->
                    RecordsByTime(timepoints_before)[i].area]

----------------------------------------------------------------------------
(* Properties of doubling_time on a series of timepoints, under SpecSeries *)

\* the timestamps and the areas of a timepoints dict, ascending by timestamp
TimesByTime(d) == [i \in 1..Len(d) |-> RecordsByTime(d)[i].date_time]
AreasByTime(d) == [i \in 1..Len(d) |-> RecordsByTime(d)[i].area]

\* the window positions of a Colony with the timepoints d
WindowPositions(d) == 0..(Len(d) - window - 1)

\* the areas at the two ends of window position i are equal
ZeroGrowthAt(d, i) == AreasByTime(d)[i + 1] = AreasByTime(d)[i + window + 1]

\* the area at the far end of window position i is the smaller one
ShrinkingAt(d, i) == AreasByTime(d)[i + window + 1] < AreasByTime(d)[i + 1]

\* C13: on a Colony with n >= 1 timepoints, none of whose window positions
\* shows zero growth, doubling_time returns max(0, n - window) values without
\* an error (none when n <= window, one when n = window + 1), and the i-th
\* value is the local doubling time of the timepoints at the positions i and
\* i + window of the ascending timestamp order.
C13_DoublingTimeWindows ==
    (/\ colony_call.op = "doubling_time"
     /\ Len(timepoints_before) >= 1
     /\ \A i \in WindowPositions(timepoints_before) :
            ~ZeroGrowthAt(timepoints_before, i))
        => /\ colony_ret.err = NoError
           /\ Len(colony_ret.value) =
                (IF Len(timepoints_before) > window
                 THEN Len(timepoints_before) - window ELSE 0)
           /\ \A i \in WindowPositions(timepoints_before) :
                colony_ret.value[i + 1] =
                    local_doubling_time(i, TimesByTime(timepoints_before),
                                        AreasByTime(timepoints_before), window).value

\* C14: when some window position of the Colony shows zero growth,
\* doubling_time fails with the error of an invalid measurement (the division
\* by log(1) = 0) and returns no value; when none does and the area shrinks
\* over some window position, doubling_time returns and the value at that
\* position is negative.
C14_ZeroAndNegativeGrowth ==
    (colony_call.op = "doubling_time" /\ Len(timepoints_before) > window)
        => /\ (\E i \in WindowPositions(timepoints_before) :
                    ZeroGrowthAt(timepoints_before, i))
                => /\ colony_ret.err = PyZeroDivisionError
                   /\ colony_ret.value = None
           /\ (/\ \A i \in WindowPositions(timepoints_before) :
                    ~ZeroGrowthAt(timepoints_before, i)
               /\ \E i \in WindowPositions(timepoints_before) :
                    ShrinkingAt(timepoints_before, i))
                => /\ colony_ret.err = NoError
                   /\ \A i \in WindowPositions(timepoints_before) :
                        ShrinkingAt(timepoints_before, i)
                            => /\ colony_ret.value[i + 1].dx > 0
                               /\ colony_ret.value[i + 1].y2 < colony_ret.value[i + 1].y1

----------------------------------------------------------------------------
(* Properties of circularity_at_timepoint, under SpecColony *)

\* C15: circularity_at_timepoint(t) raises the timepoint-not-found error when
\* t is not a stored timestamp, fails on the division by zero (the invalid
\* measurement) when the record stored at t has the perimeter 0, and returns
\* a value only for a stored record whose perimeter is not 0.
C15_CircularityErrors ==
    colony_call.op = "circularity_at_timepoint" =>
        LET t == colony_call.time_point
            stored == t \in dict_keys(timepoints_before)
        IN  /\ ~stored => colony_ret.err = TimepointNotFoundError
            /\ (stored /\ dict_getitem(timepoints_before, t).perimeter = 0)
                    => colony_ret.err = PyZeroDivisionError
            /\ colony_ret.err = NoError
                    => (stored /\ dict_getitem(timepoints_before, t).perimeter # 0)

----------------------------------------------------------------------------
(* Properties of growth_rate, under SpecSeries *)

\* the fraction a is greater than 1; the fraction a is at most the fraction b
\* (denominators are positive)
FracAboveOne(a) == a.num > a.den
FracLeq(a, b) == a.num * b.den <= b.num * a.den

\* the area of the latest record over the area of the earliest record
AreaRatio(d) ==
    [num |-> AreasByTime(d)[Len(d)], den |-> AreasByTime(d)[1]]

\* the colonies a Colony is compared with
OtherColonies ==
    {SeriesColony(n, pattern, order) :
        n \in SeriesLengths, pattern \in SeriesPatterns, order \in SeriesOrders}

----------------------------------------------------------------------------
(* Properties of Plate.colonies_rename_sequential, under SpecPlate *)

\* C17: for a Plate with n >= 0 colonies, colonies_rename_sequential(start)
\* returns without an error, gives the colonies the ids start, start + 1, ...,
\* start + n - 1 in the order of the list (so the ids stay unique), returns
\* the last id it gave, and leaves the length and the order of the list and
\* every colony's timepoints as they were.
C17_RenameSequential ==
    plate_call.op = "colonies_rename_sequential" =>
        LET n == Len(items_before)
            start == plate_call.start
        IN  /\ plate_ret.err = NoError
            /\ Len(items) = n
            /\ \A k \in 1..n :
                /\ items[k].id = start + k - 1
                /\ items[k].timepoints = items_before[k].timepoints
            /\ \A j, k \in 1..n : j # k => items[j].id # items[k].id
            /\ n >= 1 => plate_ret.value = start + n - 1

----------------------------------------------------------------------------
(* Properties of the order of the filter statements, under SpecFilter *)

\* the six orders in which the three filter statements can be applied
FilterOrders ==
    {o \in [1..3 -> FilterNames] : \A j, k \in 1..3 : j # k => o[j] # o[k]}

RECURSIVE FilteredAfter(_, _, _, _)
\* the dict left by the first k statements of the order o
FilteredAfter(o, k, d, n_frames) ==
    IF k = 0 THEN d
    ELSE filter_statement(o[k], FilteredAfter(o, k - 1, d, n_frames), n_frames)

\* the predicate of a filter statement, stated on its own
Passes(name, colony) ==
    CASE name = "sufficient_data" -> 5 * colony.timepoints_len > time_points_len
      [] name = "growth" -> colony.growth_rate.num > colony.growth_rate.den
      [] name = "merged" -> colony.timepoint_first_area < 50

\* C18: applied to the candidates in any of the six orders, the three filter
\* statements leave the same colonies, the ones the statements of main leave;
\* and in every order the colonies a later statement evaluates have passed
\* the predicates of all earlier statements.
C18_FilterOrderIndependent ==
    filter_pc = "done" =>
        \A o \in FilterOrders :
            /\ Entries(FilteredAfter(o, 3, candidates, time_points_len))
                    = Entries(filtered)
            /\ \A k \in 2..3 :
                \A e \in Entries(FilteredAfter(o, k - 1, candidates, time_points_len)) :
                    \A j \in 1..(k - 1) : Passes(o[j], e.value)

\* the statements ran on candidates of which each statement alone leaves a
\* different dict, and some but not all candidates survive
C18_Witness ==
    /\ filter_pc = "done"
    /\ Len(filtered) >= 1
    /\ Len(filtered) < Len(candidates)
    /\ \A a, b \in FilterNames :
        a # b => filter_statement(a, candidates, time_points_len)
                    # filter_statement(b, candidates, time_points_len)

----------------------------------------------------------------------------
(* Frame of a timepoints_from_image call, under SpecBuilder *)

\* C19: a call of timepoints_from_image leaves the colony set it was given as
\* it was: the caller's dict holds the same labels, and the Colony under each
\* of them holds the same timepoints as before the call, whether the call
\* returned or raised the duplicate-timepoint error.
C19_IngestLeavesArgument ==
    calls > 0 =>
        \A l \in dict_keys(colonies_dict) :
            /\ dict_getitem(colonies_dict, l) \in 1..Len(heap)
            /\ ColonyOf(colonies_dict, heap, l).timepoints
                    = ColonyOf(colonies_dict, heap_before, l).timepoints

============================================================================
